---- MODULE Spec2Model ----
(***************************************************************************)
(* Model of the error layer of chat-bot: src/ext/errors/base_errors.py     *)
(* (_flatten_error_dict, the HTTPException family, ConnectionClose) and    *)
(* the connectivity test of src/ext/request.py that raises them.           *)
(*                                                                         *)
(* src/errors.py is an earlier copy of the same classes that cannot be     *)
(* imported (its last line is wrongly indented); request.py imports        *)
(* errors.base_errors, which is the copy modelled here.                    *)
(*                                                                         *)
(* One behaviour is one call made from the idle state: a call of           *)
(* _flatten_error_dict (and a second call on its result), the construction *)
(* of one exception, or one run of _completion_test.                       *)
(*                                                                         *)
(* Python strings are sequences of one-character strings, so that          *)
(* concatenation, joining and formatting are computed, not assumed.        *)
(* Python values are records with a type tag; dicts keep insertion order   *)
(* as a sequence of <<key, value>> pairs with distinct keys.               *)
(***************************************************************************)
EXTENDS Integers, Sequences, FiniteSets, TLC

\* ------------------------------------------------------------------ bounds
\* Most key/value entries in one error tree handed to _flatten_error_dict.
MaxEntries == 3
\* Most records in one `_errors` list.
MaxErrs == 2

\* ------------------------------------------------------------ Python values
PyNone == [ty |-> "none", n |-> 0, s |-> <<>>, items |-> <<>>, elems |-> <<>>]
PyInt(i) == [ty |-> "int", n |-> i, s |-> <<>>, items |-> <<>>, elems |-> <<>>]
PyStr(chars) == [ty |-> "str", n |-> 0, s |-> chars, items |-> <<>>, elems |-> <<>>]
PyDict(its) == [ty |-> "dict", n |-> 0, s |-> <<>>, items |-> its, elems |-> <<>>]
PyList(es) == [ty |-> "list", n |-> 0, s |-> <<>>, items |-> <<>>, elems |-> es]

\* bool(v): the truth value Python's `if v`, `v or w` use.
Truthy(v) ==
    CASE v.ty = "none" -> FALSE
      [] v.ty = "int"  -> v.n # 0
      [] v.ty = "str"  -> Len(v.s) > 0
      [] v.ty = "dict" -> Len(v.items) > 0
      [] v.ty = "list" -> Len(v.elems) > 0

\* len(v) of a str, dict or list
PyLen(v) == Len(v.s) + Len(v.items) + Len(v.elems)

\* k in d
HasKey(d, k) == \E i \in 1..Len(d.items) : d.items[i][1] = k

\* d.get(k, default)
Get(d, k, default) ==
    IF HasKey(d, k)
    THEN d.items[CHOOSE i \in 1..Len(d.items) : d.items[i][1] = k][2]
    ELSE default

\* dict(pairs): a key keeps the position of its first pair and the value of
\* its last one.
RECURSIVE DictOf(_)
DictOf(pairs) ==
    IF pairs = <<>> THEN <<>>
    ELSE LET n     == Len(pairs)
             last  == pairs[n]
             front == DictOf(SubSeq(pairs, 1, n - 1))
         IN  IF \E i \in 1..Len(front) : front[i][1] = last[1]
             THEN [i \in 1..Len(front) |->
                      IF front[i][1] = last[1] THEN last ELSE front[i]]
             ELSE Append(front, last)

\* sep.join(parts), parts a sequence of strings
RECURSIVE Join(_, _)
Join(sep, parts) ==
    IF parts = <<>> THEN <<>>
    ELSE IF Len(parts) = 1 THEN parts[1]
    ELSE parts[1] \o sep \o Join(sep, Tail(parts))

\* ------------------------------------------------------------ str and repr
DigitChars == <<"0", "1", "2", "3", "4", "5", "6", "7", "8", "9">>

RECURSIVE Digits(_)
Digits(i) ==
    IF i < 10 THEN <<DigitChars[i + 1]>>
    ELSE Digits(i \div 10) \o <<DigitChars[(i % 10) + 1]>>

IntStr(i) == IF i < 0 THEN <<"-">> \o Digits(0 - i) ELSE Digits(i)

\* repr(v); strings of the model hold no quote, backslash or control
\* character, so repr of a string is the string between single quotes.
RECURSIVE Repr(_)
Repr(v) ==
    CASE v.ty = "none" -> <<"N", "o", "n", "e">>
      [] v.ty = "int"  -> IntStr(v.n)
      [] v.ty = "str"  -> <<"'">> \o v.s \o <<"'">>
      [] v.ty = "list" ->
            <<"[">> \o Join(<<",", " ">>,
                            [i \in 1..Len(v.elems) |-> Repr(v.elems[i])])
                    \o <<"]">>
      [] v.ty = "dict" ->
            <<"{">> \o Join(<<",", " ">>,
                            [i \in 1..Len(v.items) |->
                                <<"'">> \o v.items[i][1] \o <<"'", ":", " ">>
                                        \o Repr(v.items[i][2])])
                    \o <<"}">>

\* str(v), what '%s' and '{}' render
Str(v) == IF v.ty = "str" THEN v.s ELSE Repr(v)

\* --------------------------------------------------- _flatten_error_dict
ErrorsKey == <<"_", "e", "r", "r", "o", "r", "s">>
MessageKey == <<"m", "e", "s", "s", "a", "g", "e">>

\* The outcome of a call: the exception it raised (err, "" for none) or
\* the value it returned.
Returned(x) == [err |-> "", val |-> x]
Raised(name) == [err |-> name, val |-> <<>>]

\* new_key = key + '.' + k if key else k
NewKey_NoPrefix(key, k) == k
NewKey_AlwaysDot(key, k) == key \o <<".">> \o k
NewKey(key, k) == IF key # <<>> THEN key \o <<".">> \o k ELSE k

\* x.get('message', '')
MessageOf_NoneDefault(x) == Get(x, MessageKey, PyNone)
MessageOf(x) == Get(x, MessageKey, PyStr(<<>>))

\* ' '.join(x.get('message', '') for x in _errors): join first drains the
\* generator (x.get on a non-dict raises AttributeError), then refuses a
\* non-string item (TypeError).  Iterating a str yields its characters,
\* iterating a dict its keys; None and int are not iterable.
JoinErrors_NoSeparator(e) ==
    Returned(PyStr(Join(<<>>, [i \in 1..Len(e.elems) |-> MessageOf(e.elems[i]).s])))
JoinErrors(e) ==
    CASE e.ty \in {"none", "int"} -> Raised("TypeError")
      [] e.ty = "str"  -> IF e.s = <<>> THEN Returned(PyStr(<<>>))
                          ELSE Raised("AttributeError")
      [] e.ty = "dict" -> IF e.items = <<>> THEN Returned(PyStr(<<>>))
                          ELSE Raised("AttributeError")
      [] e.ty = "list" ->
            IF \E i \in 1..Len(e.elems) : e.elems[i].ty # "dict"
            THEN Raised("AttributeError")
            ELSE IF \E i \in 1..Len(e.elems) : MessageOf(e.elems[i]).ty # "str"
            THEN Raised("TypeError")
            ELSE Returned(PyStr(Join(<<" ">>,
                     [i \in 1..Len(e.elems) |-> MessageOf(e.elems[i]).s])))

\* isinstance(v, dict) with v['_errors'] present: the else branch of the try
IsErrorsBranch(v) == v.ty = "dict" /\ HasKey(v, ErrorsKey)

\* The loop body for the entries i.. of d, giving the list `items`, and the
\* function itself, which returns dict(items).  d.items() of a non-dict
\* raises AttributeError.
RECURSIVE FlattenItems(_, _, _)
RECURSIVE Flatten(_, _)
FlattenItems(d, key, i) ==
    IF i > Len(d.items) THEN Returned(<<>>)
    ELSE LET k       == d.items[i][1]
             v       == d.items[i][2]
             new_key == NewKey(key, k)
             head    ==
                 IF v.ty = "dict"
                 THEN IF IsErrorsBranch(v)
                      THEN LET j == JoinErrors(Get(v, ErrorsKey, PyNone))
                           IN  IF j.err # "" THEN j
                               ELSE Returned(<< <<new_key, j.val>> >>)
                      ELSE Flatten(v, new_key)
                 ELSE Returned(<< <<new_key, v>> >>)
         IN  IF head.err # "" THEN head
             ELSE LET rest == FlattenItems(d, key, i + 1)
                  IN  IF rest.err # "" THEN rest
                      ELSE Returned(head.val \o rest.val)

Flatten(d, key) ==
    IF d.ty # "dict" THEN Raised("AttributeError")
    ELSE LET r == FlattenItems(d, key, 1)
         IN  IF r.err # "" THEN r ELSE Returned(DictOf(r.val))

\* _flatten_error_dict(d): the call with the default key = ''
FlattenErrorDict(d) == Flatten(d, <<>>)

\* ------------------------------------------------------ HTTPException family
\* The classes base_errors.py defines, each with its base class.
Bases ==
    [ChatBotException |-> "Exception",
     ClientException  |-> "ChatBotException",
     GatewayNotFound  |-> "ChatBotException",
     HTTPException    |-> "ChatBotException",
     RateLimited      |-> "ChatBotException",
     Forbidden        |-> "HTTPException",
     ServerError      |-> "HTTPException",
     InvalidData      |-> "ClientException",
     LoginFailure     |-> "ClientException",
     ConnectionClose  |-> "ClientException"]

DefinedClasses == DOMAIN Bases

\* The names __all__ exports.
Exported ==
    {"ChatBotException", "ClientException", "GatewayNotFound", "HTTPException",
     "RateLimited", "Forbidden", "NotFound", "DiscordServerError", "InvalidData",
     "LoginFailure", "ConnectionClosed"}

RECURSIVE IsSubclass(_, _)
IsSubclass(c, base) ==
    \/ c = base
    \/ c \in DefinedClasses /\ IsSubclass(Bases[c], base)

\* The classes whose __init__ takes (response, message) and runs the body
\* of HTTPException.__init__.
ResponseClasses ==
    {"HTTPException", "Forbidden", "ServerError", "InvalidData", "LoginFailure"}

\* The response attribute the class's format string reads:
\* '{0.status_code} {0.reason} ...' or '{0.status} {0.reason} ...'.
FmtAttr(c) ==
    IF c \in {"HTTPException", "ServerError"} THEN "status_code" ELSE "status"

\* self.text = message or '' for a message that is no dict
PlainText_StrOfMessage(message) == PyStr(Str(message))
PlainText(message) == IF Truthy(message) THEN message ELSE PyStr(<<>>)

\* helpful = '\n'.join('In %s: %s' % t for t in errors.items())
Helpful_SpaceJoined(fl) ==
    Join(<<" ">>, [i \in 1..Len(fl) |->
                      <<"I", "n", " ">> \o fl[i][1] \o <<":", " ">> \o Str(fl[i][2])])
Helpful(fl) ==
    Join(<<"\n">>, [i \in 1..Len(fl) |->
                      <<"I", "n", " ">> \o fl[i][1] \o <<":", " ">> \o Str(fl[i][2])])

CodeKey == <<"c", "o", "d", "e">>
ErrorsFieldKey == <<"e", "r", "r", "o", "r", "s">>

\* The status probe at the head of __init__; reading an attribute the
\* response lacks raises AttributeError.
StatusOf(response) ==
    IF "status_code" \notin response.has THEN Raised("AttributeError")
    ELSE IF response.status_code # 0 THEN Returned(response.status_code)
    ELSE IF "status" \notin response.has THEN Raised("AttributeError")
    ELSE IF response.status # 0 THEN Returned(response.status)
    ELSE Returned(0)

\* The message part of __init__: code and text, or the exception raised.
CodeAndText(message) ==
    IF message.ty = "dict"
    THEN LET code   == Get(message, CodeKey, PyInt(0))
             base   == Get(message, MessageKey, PyStr(<<>>))
             errors == Get(message, ErrorsFieldKey, PyNone)
         IN  IF Truthy(errors)
             THEN LET fl == FlattenErrorDict(errors)
                  IN  IF fl.err # "" THEN fl
                      ELSE IF base.ty # "str" THEN Raised("TypeError")
                      ELSE Returned([code |-> code,
                                     text |-> PyStr(base.s \o <<"\n">> \o Helpful(fl.val))])
             ELSE Returned([code |-> code, text |-> base])
    ELSE Returned([code |-> PyInt(0), text |-> PlainText(message)])

\* fmt.format(self.response, self.code, self.text)
Formatted(c, response, code, text) ==
    IntStr(IF FmtAttr(c) = "status_code" THEN response.status_code
                                         ELSE response.status)
    \o <<" ">> \o response.reason
    \o <<" ", "(", "e", "r", "r", "o", "r", " ", "c", "o", "d", "e", ":", " ">>
    \o Str(code) \o <<")">>
    \o (IF PyLen(text) = 0 THEN <<>> ELSE <<":", " ">> \o Str(text))

NoException ==
    [err |-> "", attrs |-> {}, status |-> 0, code |-> PyNone, text |-> PyNone,
     args |-> <<>>]

Failed(name) == [NoException EXCEPT !.err = name]

\* super().__init__(text) at the end of __init__: the base class's
\* __init__ takes the one argument when it is Exception's; a subclass of
\* HTTPException reaches HTTPException.__init__(response, message), which
\* misses its second argument (TypeError).
SuperInitAccepts(c) == Bases[c] # "HTTPException"

\* __init__ of a class of ResponseClasses: the exception object, or the
\* error raised while constructing it.  len(self.text) raises TypeError on
\* an int or None; format raises AttributeError on a missing attribute.
New(c, response, message) ==
    LET st == StatusOf(response)
        ct == CodeAndText(message)
    IN  IF st.err # "" THEN Failed(st.err)
        ELSE IF ct.err # "" THEN Failed(ct.err)
        ELSE IF ct.val.text.ty \in {"none", "int"} THEN Failed("TypeError")
        ELSE IF FmtAttr(c) \notin response.has \/ "reason" \notin response.has
        THEN Failed("AttributeError")
        ELSE IF ~SuperInitAccepts(c) THEN Failed("TypeError")
        ELSE [err    |-> "",
              attrs  |-> {"response", "status", "code", "text"}
                         \cup (IF message.ty = "dict" THEN {"_errors"} ELSE {}),
              status |-> st.val,
              code   |-> ct.val.code,
              text   |-> ct.val.text,
              args   |-> Formatted(c, response, ct.val.code, ct.val.text)]

\* ----------------------------------------------------------- ConnectionClose
\* a or b
Or(a, b) == IF Truthy(a) THEN a ELSE b

\* self.code = code or socket.close_code or -1
CloseCode_SocketFirst(code, socket) == Or(Or(socket.close_code, code), PyInt(-1))
CloseCode(code, socket) == Or(Or(code, socket.close_code), PyInt(-1))

\* ConnectionClose.__init__(socket, code=code)
NewConnectionClose(socket, code) ==
    LET c == CloseCode(code, socket)
    IN  [code   |-> c,
         reason |-> <<>>,
         args   |-> <<"W", "e", "b", "S", "o", "c", "k", "e", "t", " ",
                      "c", "l", "o", "s", "e", "d", " ", "w", "i", "t", "h", " ">>
                    \o Str(c)]

\* ------------------------------------------------------------------- inputs
SeqsUpTo(S, n) == UNION {[1..m -> S] : m \in 0..n}

KeySet(its) == {its[i][1] : i \in 1..Len(its)}

Entry(k, v) == << <<k, v>> >>

\* Field names: empty, plain, and one holding the path separator.
FieldNames == {<<>>, <<"a">>, <<"b">>, <<"a", ".", "b">>}

Scalars == {PyStr(<<"x">>), PyInt(5)}

\* Trees of field names and scalar leaves with at most n entries in all,
\* as item sequences.
RECURSIVE PlainForest(_)
PlainForest(n) ==
    IF n = 0 THEN {<<>>}
    ELSE {<<>>} \cup
         UNION {UNION {{Entry(k, v) \o rest :
                           k \in FieldNames \ KeySet(rest),
                           v \in Scalars \cup {PyDict(f) : f \in PlainForest(i)}} :
                       rest \in PlainForest(n - 1 - i)} :
                i \in 0..(n - 1)}

PlainTrees == {PyDict(f) : f \in PlainForest(MaxEntries)}

\* `_errors` lists: records with or without a message.
ErrRecords == {PyDict(<<>>), PyDict(Entry(MessageKey, PyStr(<<"b", "a", "d">>)))}

ErrLists == {PyList(s) : s \in SeqsUpTo(ErrRecords, MaxErrs)}

\* `_errors` values of an unexpected shape.
MalformedErrs ==
    {PyStr(<<"x">>), PyList(<<PyStr(<<"x">>)>>), PyNone,
     PyList(<<PyDict(Entry(MessageKey, PyInt(5)))>>)}

\* A mapping tagged with `_errors`, alone or with a sibling key before or
\* after the tag, the sibling a leaf or a nested mapping.
LeafSibling == Entry(<<"b">>, PyStr(<<"x">>))
NestedSibling == Entry(<<"b">>, PyDict(Entry(<<"a">>, PyStr(<<"x">>))))

ErrBranches ==
    {PyDict(Entry(ErrorsKey, e)) : e \in ErrLists \cup MalformedErrs}
    \cup {PyDict(Entry(ErrorsKey, e) \o LeafSibling) : e \in ErrLists}
    \cup {PyDict(NestedSibling \o Entry(ErrorsKey, e)) : e \in ErrLists}

\* Trees with one `_errors` branch: alone, nested, or beside another entry.
Others == {Entry(k, v) : k \in FieldNames, v \in Scalars}
          \cup {Entry(k, PyDict(Entry(k2, PyStr(<<"x">>)))) :
                   k \in FieldNames, k2 \in FieldNames}

ErrTreesAlone ==
    {PyDict(Entry(k, b)) : k \in FieldNames, b \in ErrBranches}
    \cup {PyDict(Entry(k, PyDict(Entry(k2, b)))) :
             k \in FieldNames, k2 \in FieldNames, b \in ErrBranches}

ErrTreesBeside ==
    UNION {UNION {{PyDict(Entry(k, b) \o o), PyDict(o \o Entry(k, b))} :
                     k \in FieldNames \ KeySet(o), b \in ErrBranches} :
              o \in Others}

ErrTrees == ErrTreesAlone \cup ErrTreesBeside

FlattenInputs == PlainTrees \cup ErrTrees

\* Responses: each of status_code, status and reason may be missing; a
\* missing attribute is left out of `has` and its field is 0 or empty.
Reason == <<"F", "o", "r", "b", "i", "d", "d", "e", "n">>

\* An attribute of an input object: missing, or present with a value.
Missing == [present |-> FALSE, value |-> 0]
Present(v) == [present |-> TRUE, value |-> v]

Response(sc, st, rs) ==
    [has         |-> (IF sc.present THEN {"status_code"} ELSE {})
                     \cup (IF st.present THEN {"status"} ELSE {})
                     \cup (IF rs THEN {"reason"} ELSE {}),
     status_code |-> sc.value,
     status      |-> st.value,
     reason      |-> IF rs THEN Reason ELSE <<>>]

Responses ==
    {Response(sc, st, rs) :
        sc \in {Missing, Present(0), Present(403)},
        st \in {Missing, Present(0), Present(404)},
        rs \in BOOLEAN}

\* A response with every attribute, as neither client library gives.
FullResponse == Response(Present(403), Present(403), TRUE)

\* Messages that are no structured body with errors.
PlainMessages ==
    {PyNone, PyStr(<<>>), PyStr(<<"x">>), PyDict(<<>>),
     PyDict(Entry(CodeKey, PyInt(50035)) \o Entry(MessageKey, PyStr(<<"m">>))),
     PyDict(Entry(ErrorsFieldKey, PyDict(<<>>)))}

\* Structured bodies: code and message present or not, errors a tree.
BodyErrors ==
    {PyDict(f) : f \in PlainForest(MaxEntries - 1)} \cup ErrTreesAlone
    \cup {PyStr(<<"x">>), PyList(<<PyStr(<<"x">>)>>), PyInt(5)}

Bodies ==
    {PyDict(c \o m \o Entry(ErrorsFieldKey, e)) :
        c \in {<<>>, Entry(CodeKey, PyInt(50035))},
        m \in {<<>>, Entry(MessageKey, PyStr(<<"m">>)), Entry(MessageKey, PyInt(5))},
        e \in BodyErrors}

\* Close codes: none, zero, and codes a websocket gives.
CloseCodes == {PyNone, PyInt(0), PyInt(1000), PyInt(1006), PyInt(4004), PyInt(-1)}

\* The two URLs _completion_test probes, and the statuses a get may return.
Urls == <<"https://api.github.com/", "https://discord.com/api">>

GetStatuses == {200, 204, 301, 400, 403, 404, 429, 500, 503, 599}

\* -------------------------------------------------------------------- state
VARIABLES
    op,        \* the operation that ran last
    d,         \* the argument of _flatten_error_dict
    flat,      \* its outcome
    cls,       \* the class of the exception constructed or raised last
    response,  \* the response handed to __init__
    message,   \* the message handed to __init__
    exc,       \* the exception object, or the error constructing it raised
    socket,    \* the socket handed to ConnectionClose
    code,      \* the code keyword handed to ConnectionClose
    conn,      \* the ConnectionClose object
    pc,        \* _completion_test: where it stands
    url        \* _completion_test: the index in Urls of the URL being probed

vars == <<op, d, flat, cls, response, message, exc, socket, code, conn, pc, url>>

NoResponse == Response(Missing, Missing, FALSE)
NoSocket == [close_code |-> PyNone]
NoConn == [code |-> PyNone, reason |-> <<>>, args |-> <<>>]

Init ==
    /\ op = "idle"
    /\ d = PyNone
    /\ flat = Returned(<<>>)
    /\ cls = ""
    /\ response = NoResponse
    /\ message = PyNone
    /\ exc = NoException
    /\ socket = NoSocket
    /\ code = PyNone
    /\ conn = NoConn
    /\ pc = "idle"
    /\ url = 0

\* Each call starts from the idle state: the values of one failed call are
\* built fresh and shared with no other call.

\* _flatten_error_dict(t) for an error tree t
CallFlatten ==
    /\ pc = "idle"
    /\ op = "idle"
    /\ \E t \in FlattenInputs :
          /\ d' = t
          /\ flat' = FlattenErrorDict(t)
    /\ op' = "flatten"
    /\ UNCHANGED <<cls, response, message, exc, socket, code, conn, pc, url>>

\* _flatten_error_dict applied to the mapping a call returned
FlattenAgain ==
    /\ pc = "idle"
    /\ op = "flatten"
    /\ flat.err = ""
    /\ op' = "flatten_again"
    /\ d' = PyDict(flat.val)
    /\ flat' = FlattenErrorDict(PyDict(flat.val))
    /\ UNCHANGED <<cls, response, message, exc, socket, code, conn, pc, url>>

\* c(r, m) for a class c of ResponseClasses: any response with a message
\* that holds no error tree, or a full response with a structured body
Construct ==
    /\ pc = "idle"
    /\ op = "idle"
    /\ \E c \in ResponseClasses :
          /\ cls' = c
          /\ \/ \E r \in Responses, m \in PlainMessages :
                   /\ response' = r
                   /\ message' = m
                   /\ exc' = New(c, r, m)
             \/ \E m \in Bodies :
                   /\ response' = FullResponse
                   /\ message' = m
                   /\ exc' = New(c, FullResponse, m)
    /\ op' = "construct"
    /\ UNCHANGED <<d, flat, socket, code, conn, pc, url>>

\* ConnectionClose(s, code=c); code=None is the call without the keyword
Close ==
    /\ pc = "idle"
    /\ op = "idle"
    /\ \E s \in CloseCodes, c \in CloseCodes :
          /\ socket' = [close_code |-> s]
          /\ code' = c
          /\ conn' = NewConnectionClose([close_code |-> s], c)
    /\ op' = "close"
    /\ cls' = "ConnectionClose"
    /\ UNCHANGED <<d, flat, response, message, exc, pc, url>>

\* _completion_test() is entered
TestStart ==
    /\ pc = "idle"
    /\ op = "idle"
    /\ op' = "test"
    /\ pc' = "get"
    /\ url' = 1
    /\ UNCHANGED <<d, flat, cls, response, message, exc, socket, code, conn>>

\* response = get(url): a requests.Response (status_code and reason, no
\* status), or an exception that is no HTTPError, which the second except
\* clause turns into InvalidURL.
TestGet ==
    /\ pc = "get"
    /\ \/ \E s \in GetStatuses :
             /\ response' = Response(Present(s), Missing, TRUE)
             /\ pc' = "raise_for_status"
             /\ UNCHANGED <<cls, exc>>
       \/ /\ pc' = "raised"
          /\ cls' = "InvalidURL"
          /\ UNCHANGED <<response, exc>>
    /\ UNCHANGED <<op, d, flat, message, socket, code, conn, url>>

\* response.raise_for_status(): HTTPError for a status in 400..599, which
\* the first except clause turns into HTTPException(response, None);
\* otherwise 'Success!' and the next URL.
TestRaiseForStatus ==
    /\ pc = "raise_for_status"
    /\ IF response.status_code >= 400 /\ response.status_code < 600
       THEN /\ cls' = "HTTPException"
            /\ exc' = New("HTTPException", response, PyNone)
            /\ pc' = "raised"
            /\ url' = url
       ELSE /\ UNCHANGED <<cls, exc>>
            /\ IF url < Len(Urls)
               THEN pc' = "get" /\ url' = url + 1
               ELSE pc' = "done" /\ url' = url
    /\ UNCHANGED <<op, d, flat, response, message, socket, code, conn>>

Next ==
    \/ CallFlatten
    \/ FlattenAgain
    \/ Construct
    \/ Close
    \/ TestStart
    \/ TestGet
    \/ TestRaiseForStatus

Spec == Init /\ [][Next]_vars

\* ------------------------------------------------- what the claims speak of
\* The leaves of an error tree in depth-first insertion order, each with the
\* sequence of field names that leads to it.  A leaf is a value that is no
\* mapping, or a mapping tagged with `_errors`.
RECURSIVE LeavesOf(_, _)
LeavesOf(its, ks) ==
    IF its = <<>> THEN <<>>
    ELSE LET k == its[1][1]
             v == its[1][2]
         IN  (IF v.ty = "dict" /\ ~HasKey(v, ErrorsKey)
              THEN LeavesOf(v.items, Append(ks, k))
              ELSE << <<Append(ks, k), v>> >>)
             \o LeavesOf(Tail(its), ks)

Leaves(t) == LeavesOf(t.items, <<>>)

\* "k1.k2. ... .kn"
RECURSIVE DottedPath(_)
DottedPath(ks) ==
    IF Len(ks) = 1 THEN ks[1]
    ELSE DottedPath(SubSeq(ks, 1, Len(ks) - 1)) \o <<".">> \o ks[Len(ks)]

IsBranch(v) == v.ty = "dict" /\ HasKey(v, ErrorsKey)

ErrorsOf(v) == Get(v, ErrorsKey, PyNone)

\* An `_errors` value of the documented shape: a list of records whose
\* message, when present, is a string.
IsRecordList(e) ==
    /\ e.ty = "list"
    /\ \A i \in 1..Len(e.elems) :
          /\ e.elems[i].ty = "dict"
          /\ Get(e.elems[i], MessageKey, PyStr(<<>>)).ty = "str"

\* Every `_errors` branch of the tree has the documented shape.
WellShaped(t) ==
    \A i \in 1..Len(Leaves(t)) :
        IsBranch(Leaves(t)[i][2]) => IsRecordList(ErrorsOf(Leaves(t)[i][2]))

\* No mapping of the tree is tagged with `_errors`.
Untagged(t) == \A i \in 1..Len(Leaves(t)) : ~IsBranch(Leaves(t)[i][2])

\* Every field name on the way to a leaf is non-empty and holds no '.'.
WellNamed(t) ==
    \A i \in 1..Len(Leaves(t)) :
        \A j \in 1..Len(Leaves(t)[i][1]) :
            LET k == Leaves(t)[i][1][j]
            IN  k # <<>> /\ \A c \in 1..Len(k) : k[c] # "."

\* The messages of the records, each followed by a space but the last.
RECURSIVE SpacedMessages(_)
SpacedMessages(es) ==
    IF es = <<>> THEN <<>>
    ELSE LET m == IF HasKey(es[1], MessageKey)
                  THEN es[1].items[CHOOSE i \in 1..Len(es[1].items) :
                                      es[1].items[i][1] = MessageKey][2].s
                  ELSE <<>>
         IN  IF Len(es) = 1 THEN m ELSE m \o <<" ">> \o SpacedMessages(Tail(es))

\* What the claims expect under a leaf's path.
ExpectedValue(v) ==
    IF IsBranch(v) THEN PyStr(SpacedMessages(ErrorsOf(v).elems)) ELSE v

HasPath(fl, path) == \E i \in 1..Len(fl) : fl[i][1] = path

ValueAt(fl, path) == fl[CHOOSE i \in 1..Len(fl) : fl[i][1] = path][2]

IsPrefix(p, q) == Len(p) <= Len(q) /\ SubSeq(q, 1, Len(p)) = p

Flattened == op \in {"flatten", "flatten_again"}

Spaces(n) == [i \in 1..n |-> " "]

AllLackMessage(e) ==
    \A i \in 1..Len(e.elems) : ~HasKey(e.elems[i], MessageKey)

\* ------------------------------------------------------------------- claims

\* The path of section 4.1: prefix + "." + k for a non-empty prefix, else k.
RECURSIVE PathOf(_)
PathOf(ks) ==
    IF ks = <<>> THEN <<>>
    ELSE LET prefix == PathOf(SubSeq(ks, 1, Len(ks) - 1))
         IN  IF prefix = <<>> THEN ks[Len(ks)]
             ELSE prefix \o <<".">> \o ks[Len(ks)]

\* C4 as stated: wherever a value of the tree is a mapping tagged with
\* `_errors` (a list of records), the result holds under that branch's
\* path the records' messages joined by single spaces, and the branch
\* gives no entry but that one.
C4_AsStated ==
    (op = "flatten" /\ WellShaped(d)) =>
        /\ flat.err = ""
        /\ Len(flat.val) <= Len(Leaves(d))
        /\ \A i \in 1..Len(Leaves(d)) :
              LET ks == Leaves(d)[i][1]
                  v  == Leaves(d)[i][2]
              IN  IsBranch(v) =>
                     /\ HasPath(flat.val, PathOf(ks))
                     /\ ValueAt(flat.val, PathOf(ks))
                           = PyStr(SpacedMessages(ErrorsOf(v).elems))

\* The branches of a tree are leaves of the result: each has its entry,
\* with the joined messages, and nothing lies under its path.
BranchIsLeaf(t, fl) ==
    \A i \in 1..Len(Leaves(t)) :
        LET ks == Leaves(t)[i][1]
            v  == Leaves(t)[i][2]
        IN  IsBranch(v) =>
               /\ HasPath(fl, DottedPath(ks))
               /\ ValueAt(fl, DottedPath(ks)) = PyStr(SpacedMessages(ErrorsOf(v).elems))
               /\ \A j \in 1..Len(fl) :
                     ~IsPrefix(DottedPath(ks) \o <<".">>, fl[j][1])

\* C4, amended: the same, for trees whose field names are non-empty and
\* hold no '.'; with other names a later leaf of the same dotted path
\* overwrites the branch's value.
C4_BranchIsLeaf ==
    (op = "flatten" /\ WellShaped(d) /\ WellNamed(d)) =>
        (flat.err = "" /\ BranchIsLeaf(d, flat.val))

\* A branch with two messages and a sibling key, flattened to one entry.
C4_Witness ==
    /\ op = "flatten"
    /\ d = PyDict(Entry(<<"a">>,
                PyDict(Entry(ErrorsKey,
                           PyList(<<PyDict(Entry(MessageKey, PyStr(<<"b", "a", "d">>))),
                                    PyDict(Entry(MessageKey, PyStr(<<"b", "a", "d">>)))>>))
                       \o LeafSibling)))
    /\ flat = Returned(Entry(<<"a">>, PyStr(<<"b", "a", "d", " ", "b", "a", "d">>)))

\* C5 as stated: an `_errors` list of any length whose records all lack
\* `message` leaves its path in the result with the empty string.
C5_AsStated ==
    (op = "flatten" /\ WellShaped(d)) =>
        /\ flat.err = ""
        /\ \A i \in 1..Len(Leaves(d)) :
              LET ks == Leaves(d)[i][1]
                  v  == Leaves(d)[i][2]
              IN  (IsBranch(v) /\ AllLackMessage(ErrorsOf(v))) =>
                     /\ HasPath(flat.val, PathOf(ks))
                     /\ ValueAt(flat.val, PathOf(ks)) = PyStr(<<>>)

\* C5, amended: for n such records the value is n - 1 spaces (none for an
\* empty list), so it is the empty string only for lists of at most one
\* record; field names non-empty and without '.'.
C5_MissingMessages ==
    (op = "flatten" /\ WellShaped(d) /\ WellNamed(d)) =>
        /\ flat.err = ""
        /\ \A i \in 1..Len(Leaves(d)) :
              LET ks == Leaves(d)[i][1]
                  v  == Leaves(d)[i][2]
                  n  == Len(ErrorsOf(v).elems)
              IN  (IsBranch(v) /\ AllLackMessage(ErrorsOf(v))) =>
                     /\ HasPath(flat.val, DottedPath(ks))
                     /\ ValueAt(flat.val, DottedPath(ks))
                           = PyStr(Spaces(IF n = 0 THEN 0 ELSE n - 1))
                     /\ (ValueAt(flat.val, DottedPath(ks)) = PyStr(<<>>)) <=> (n <= 1)

\* Two records without a message: the path is there, with one space.
C5_Witness ==
    /\ op = "flatten"
    /\ d = PyDict(Entry(<<"a">>,
                PyDict(Entry(ErrorsKey, PyList(<<PyDict(<<>>), PyDict(<<>>)>>)))))
    /\ flat = Returned(Entry(<<"a">>, PyStr(<<" ">>)))

\* The entries the claims expect of a tree: one per leaf, in order.
ExpectedEntries(t) ==
    [i \in 1..Len(Leaves(t)) |->
        <<DottedPath(Leaves(t)[i][1]), ExpectedValue(Leaves(t)[i][2])>>]

IsFlat(t) == \A i \in 1..Len(t.items) : t.items[i][2].ty # "dict"

\* C6 as stated: a nested mapping without `_errors` flattens to the
\* entries "k1.k2. ... .kn" -> leaf, in depth-first insertion order; the
\* empty mapping to the empty one; a flat mapping to itself.
C6_AsStated ==
    (Flattened /\ Untagged(d)) =>
        /\ flat = Returned(ExpectedEntries(d))
        /\ (d.items = <<>> => flat.val = <<>>)
        /\ (IsFlat(d) => flat.val = d.items)

\* C6, amended: the dotted entries for trees whose field names are
\* non-empty and hold no '.' (an empty first name adds no '.', and equal
\* paths merge); the empty and the flat mapping as stated, for any names.
C6_DottedPaths ==
    (Flattened /\ Untagged(d)) =>
        /\ flat.err = ""
        /\ (WellNamed(d) => flat.val = ExpectedEntries(d))
        /\ (d.items = <<>> => flat.val = <<>>)
        /\ (IsFlat(d) => flat.val = d.items)

\* Two levels and two leaves: {"a": {"b": "x"}, "b": 5}.
C6_Witness ==
    /\ op = "flatten"
    /\ d = PyDict(Entry(<<"a">>, PyDict(Entry(<<"b">>, PyStr(<<"x">>))))
                  \o Entry(<<"b">>, PyInt(5)))
    /\ flat = Returned(Entry(<<"a", ".", "b">>, PyStr(<<"x">>))
                       \o Entry(<<"b">>, PyInt(5)))

\* One entry per leaf, each with its own leaf's value, under distinct paths.
OneEntryPerLeaf(t, fl) ==
    /\ Len(fl) = Len(Leaves(t))
    /\ \A i, j \in 1..Len(fl) : fl[i][1] = fl[j][1] => i = j
    /\ \A i \in 1..Len(fl) : fl[i][2] = ExpectedValue(Leaves(t)[i][2])

\* C10 as stated: for every tree with string field names the result has
\* exactly one entry per leaf and no value is overwritten by a later leaf.
C10_AsStated ==
    (op = "flatten" /\ flat.err = "") => OneEntryPerLeaf(d, flat.val)

\* C10, amended: for every tree whose field names are non-empty strings
\* without '.'.
C10_NoCollision ==
    (op = "flatten" /\ flat.err = "" /\ WellNamed(d)) =>
        OneEntryPerLeaf(d, flat.val)

\* {"b": {"a": 5, "b": "x"}}: two leaves under one name, two paths.
C10_Witness ==
    /\ op = "flatten"
    /\ d = PyDict(Entry(<<"b">>, PyDict(Entry(<<"a">>, PyInt(5))
                                       \o Entry(<<"b">>, PyStr(<<"x">>)))))
    /\ flat = Returned(Entry(<<"b", ".", "a">>, PyInt(5))
                       \o Entry(<<"b", ".", "b">>, PyStr(<<"x">>)))

\* An HTTPException has been constructed: by a direct call, or by
\* _completion_test's first except clause.
Constructed ==
    /\ \/ op = "construct"
       \/ op = "test" /\ pc = "raised"
    /\ cls = "HTTPException"
    /\ exc.err = ""

\* The lines "In {path}: {msg}" of the entries i.. of a flattened mapping,
\* each but the last followed by a newline.
RECURSIVE LinesFrom(_, _)
LinesFrom(fl, i) ==
    IF i > Len(fl) THEN <<>>
    ELSE <<"I", "n", " ">> \o fl[i][1] \o <<":", " ">>
         \o (IF fl[i][2].ty = "str" THEN fl[i][2].s ELSE Repr(fl[i][2]))
         \o (IF i < Len(fl) THEN <<"\n">> \o LinesFrom(fl, i + 1) ELSE <<>>)

\* C1: an HTTPException constructed with a structured body has the body's
\* code (0 when absent); with non-empty errors its text is the body's
\* message, a newline, and one line "In {path}: {msg}" per entry of the
\* flattened errors in the mapping's order, joined by newlines; with errors
\* absent or empty its text is the body's message.
C1_BodyText ==
    (Constructed /\ message.ty = "dict") =>
        LET body_code    == IF HasKey(message, CodeKey)
                            THEN Get(message, CodeKey, PyNone) ELSE PyInt(0)
            body_message == IF HasKey(message, MessageKey)
                            THEN Get(message, MessageKey, PyNone) ELSE PyStr(<<>>)
            errors       == IF HasKey(message, ErrorsFieldKey)
                            THEN Get(message, ErrorsFieldKey, PyNone) ELSE PyNone
        IN  /\ exc.code = body_code
            /\ exc.text =
                  IF HasKey(message, ErrorsFieldKey) /\ PyLen(errors) > 0
                  THEN PyStr(body_message.s \o <<"\n">>
                             \o LinesFrom(FlattenErrorDict(errors).val, 1))
                  ELSE body_message

\* {"code": 50035, "message": "m", "errors": {"b": {"_errors": [{"message":
\* "bad"}], "b": "x"}}} gives code 50035 and text "m\nIn b: bad".
C1_Witness ==
    /\ Constructed
    /\ message = PyDict(Entry(CodeKey, PyInt(50035))
                        \o Entry(MessageKey, PyStr(<<"m">>))
                        \o Entry(ErrorsFieldKey,
                              PyDict(Entry(<<"b">>,
                                  PyDict(Entry(ErrorsKey,
                                      PyList(<<PyDict(Entry(MessageKey,
                                                 PyStr(<<"b", "a", "d">>)))>>))
                                         \o LeafSibling)))))
    /\ exc.code = PyInt(50035)
    /\ exc.text = PyStr(<<"m", "\n", "I", "n", " ", "b", ":", " ", "b", "a", "d">>)

\* The status the probe is to give: status_code when present and truthy,
\* else status when present and truthy, else 0.
ExpectedStatus(r) ==
    IF "status_code" \in r.has /\ r.status_code # 0 THEN r.status_code
    ELSE IF "status" \in r.has /\ r.status # 0 THEN r.status
    ELSE 0

\* C2 (fails on the code): for every response, whichever of status_code and
\* status it exposes, constructing HTTPException, Forbidden or ServerError
\* completes and sets status by the probe's rule.
C2_AsStated ==
    (op = "construct" /\ cls \in {"HTTPException", "Forbidden", "ServerError"}
        /\ "reason" \in response.has /\ message = PyNone) =>
        (exc.err = "" /\ exc.status = ExpectedStatus(response))

\* A body of an unexpected shape: errors that is no mapping of well-formed
\* branches, or a message that is no string.
MalformedBody(m) ==
    \/ /\ Truthy(Get(m, ErrorsFieldKey, PyNone))
       /\ \/ Get(m, ErrorsFieldKey, PyNone).ty # "dict"
          \/ ~WellShaped(Get(m, ErrorsFieldKey, PyNone))
    \/ Get(m, MessageKey, PyStr(<<>>)).ty # "str"

\* C3 (fails on the code): constructing an HTTPException never raises
\* because of the body's shape; a malformed body gives code 0 and the whole
\* body as text.
C3_AsStated ==
    (op = "construct" /\ cls = "HTTPException" /\ response = FullResponse
        /\ message.ty = "dict") =>
        /\ exc.err = ""
        /\ MalformedBody(message) =>
              (exc.code = PyInt(0) /\ exc.text = PyStr(Str(message)))

\* The kind section 4.2 selects for a status.
KindFor(s) ==
    IF s = 403 THEN "Forbidden"
    ELSE IF s = 404 THEN "NotFound"
    ELSE IF s >= 500 /\ s <= 599 THEN "ServerError"
    ELSE "HTTPException"

\* C7 (fails on the code): a failed HTTP call is raised as the kind its
\* status selects, and that kind is a defined subtype of HTTPException.
C7_AsStated ==
    (op = "test" /\ pc = "raised" /\ cls # "InvalidURL") =>
        /\ cls = KindFor(response.status_code)
        /\ KindFor(response.status_code) \in DefinedClasses \cap Exported
        /\ IsSubclass(KindFor(response.status_code), "HTTPException")
        /\ exc.err = ""

\* C8: a constructed HTTPException has status, code and text, whatever the
\* message; for a message that is None or a string, code is 0 and text is
\* the message, the empty string for None.
C8_Attributes ==
    Constructed =>
        /\ {"status", "code", "text"} \subseteq exc.attrs
        /\ exc.status = ExpectedStatus(response)
        /\ message.ty \in {"none", "str"} =>
              /\ exc.code = PyInt(0)
              /\ exc.text = IF message.ty = "none" THEN PyStr(<<>>) ELSE message

\* HTTPException(response, None) for a response that has its status only
\* under `status_code`.
C8_Witness ==
    /\ Constructed
    /\ op = "construct"
    /\ message = PyNone
    /\ response.has = {"status_code", "reason"}
    /\ exc.status = 403
    /\ exc.code = PyInt(0)
    /\ exc.text = PyStr(<<>>)

\* C9 as stated: the exception carries the explicit close code whenever one
\* is passed (any integer), -1 when none is passed and the transport gives
\* none, and an empty reason.
C9_AsStated ==
    op = "close" =>
        /\ code.ty = "int" => conn.code = code
        /\ (code.ty = "none" /\ socket.close_code.ty = "none") => conn.code = PyInt(-1)
        /\ conn.reason = <<>>

\* C9, amended: the explicit code when it is a non-zero integer; else the
\* transport's close code when that is a non-zero integer; else -1 (an
\* explicit 0 counts as no code); the reason is the empty string.
C9_CloseCode ==
    op = "close" =>
        /\ (code.ty = "int" /\ code.n # 0) => conn.code = code
        /\ (~(code.ty = "int" /\ code.n # 0)
               /\ socket.close_code.ty = "int" /\ socket.close_code.n # 0)
              => conn.code = socket.close_code
        /\ (~(code.ty = "int" /\ code.n # 0)
               /\ ~(socket.close_code.ty = "int" /\ socket.close_code.n # 0))
              => conn.code = PyInt(-1)
        /\ conn.reason = <<>>

\* ConnectionClose(socket, code=0) on a socket closed with 1006 carries 1006.
C9_Witness ==
    /\ op = "close"
    /\ code = PyInt(0)
    /\ socket.close_code = PyInt(1006)
    /\ conn.code = PyInt(1006)

====
